---------------------------- MODULE Spec2Model ----------------------------
(***************************************************************************)
(* Pokedex REST API.                                                       *)
(*                                                                         *)
(* Two variants of the server are modelled:                                *)
(*   - src/src/index.js: the file-backed variant.  The records live in     *)
(*     the in-memory array pokemonsList, and every mutating handler        *)
(*     rewrites data/pokemons.json with writeFileSync.  The handlers are   *)
(*     synchronous callbacks: each runs to completion on the event loop.   *)
(*   - src/unnamed/part_000: the MongoDB variant, of which the credential  *)
(*     store and the two /auth handlers are modelled.  These handlers are  *)
(*     async: another request may run at every await.                      *)
(*                                                                         *)
(* JavaScript values are records [t, n, s]: t is the type tag, n the       *)
(* numeric value and s the characters of a string (a tuple of one-         *)
(* character strings), so that values of different types can be compared.  *)
(***************************************************************************)
EXTENDS Integers, Sequences, FiniteSets, Bags, TLC

VARIABLES
    pokemonsList,   \* index.js:13   the in-memory array of records
    disk,           \* data/pokemons.json: [valid, docs]
    resp,           \* the response of the last request to the file-backed server
    writeFailures,  \* how many writeFileSync calls have thrown
    users,          \* the users collection of the credential store
    inflight,       \* the /auth requests suspended at an await
    authResp        \* the last response of an /auth handler

fileVars == <<pokemonsList, disk, resp, writeFailures>>
authVars == <<users, inflight, authResp>>
vars == <<fileVars, authVars>>

-----------------------------------------------------------------------------
(* Bounds *)

\* Longest list of records a POST may build.
MaxLen == 2

\* How many times writeFileSync may fail in one run.
MaxWriteFailures == 1

\* How many /auth requests may be suspended at an await at once.
MaxInflight == 2

-----------------------------------------------------------------------------
(* JavaScript values *)

Num(k) == [t |-> "number", n |-> k, s |-> <<>>]
Str(cs) == [t |-> "string", n |-> 0, s |-> cs]
NaN == [t |-> "NaN", n |-> 0, s |-> <<>>]
Undefined == [t |-> "undefined", n |-> 0, s |-> <<>>]

Digits == <<"0", "1", "2", "3", "4", "5", "6", "7", "8", "9">>
Base == Len(Digits)
WhiteSpace == {" "}
Quote == "\""

\* The value of each decimal digit.
DigitOf ==
    [c \in {Digits[d] : d \in 1..Base} |-> (CHOOSE d \in 1..Base : Digits[d] = c) - 1]
IsDigit(c) == c \in DOMAIN DigitOf
DigitVal(c) == DigitOf[c]

\* The characters of cs from position i on.
From(cs, i) == SubSeq(cs, i, Len(cs))

\* Number of leading characters of cs that are white space.
RECURSIVE LeadingSpaces(_)
LeadingSpaces(cs) ==
    IF cs # <<>> /\ Head(cs) \in WhiteSpace THEN 1 + LeadingSpaces(Tail(cs)) ELSE 0

\* Number of leading characters of cs that are decimal digits.
RECURSIVE LeadingDigits(_)
LeadingDigits(cs) ==
    IF cs # <<>> /\ IsDigit(Head(cs)) THEN 1 + LeadingDigits(Tail(cs)) ELSE 0

\* The value of a tuple of decimal digits.
RECURSIVE DigitsValue(_)
DigitsValue(cs) ==
    IF cs = <<>> THEN 0
    ELSE Base * DigitsValue(SubSeq(cs, 1, Len(cs) - 1)) + DigitVal(cs[Len(cs)])

\* parseInt(string): skips leading white space, reads an optional sign and the
\* longest prefix of decimal digits, and ignores what follows; NaN when there
\* is no digit.  (A "0x" prefix, radix 16, is outside the modelled alphabet.)
parseInt(cs) ==
    LET a == From(cs, LeadingSpaces(cs) + 1)
        neg == a # <<>> /\ Head(a) = "-"
        b == IF a # <<>> /\ Head(a) \in {"-", "+"} THEN Tail(a) ELSE a
        k == LeadingDigits(b)
    IN  IF k = 0 THEN NaN
        ELSE Num((IF neg THEN -1 ELSE 1) * DigitsValue(SubSeq(b, 1, k)))

\* cs without its leading and trailing white space.
RECURSIVE TrimEnd(_)
TrimEnd(cs) ==
    IF cs # <<>> /\ cs[Len(cs)] \in WhiteSpace
    THEN TrimEnd(SubSeq(cs, 1, Len(cs) - 1)) ELSE cs
TrimChars(cs) == TrimEnd(From(cs, LeadingSpaces(cs) + 1))

\* ToNumber(string), the conversion the == operator applies to a string
\* operand: white space is trimmed, the empty string is 0, a signed decimal
\* integer literal is its value and anything else is NaN.  (Fractions,
\* exponents, hex literals and Infinity are outside the modelled alphabet.)
ToNumber(cs) ==
    LET a == TrimChars(cs)
        neg == a # <<>> /\ Head(a) = "-"
        b == IF a # <<>> /\ Head(a) \in {"-", "+"} THEN Tail(a) ELSE a
    IN  IF a = <<>> THEN Num(0)
        ELSE IF b # <<>> /\ LeadingDigits(b) = Len(b)
             THEN Num((IF neg THEN -1 ELSE 1) * DigitsValue(b))
             ELSE NaN

\* v === id, for id a number or NaN (the result of parseInt).
StrictEq(v, id) == v.t = "number" /\ id.t = "number" /\ v.n = id.n

\* v == id, for id a number or NaN: a string operand is converted with
\* ToNumber, undefined equals no number, NaN equals nothing.
LooseEq(v, id) ==
    CASE v.t = "number" -> id.t = "number" /\ v.n = id.n
      [] v.t = "string" -> LET k == ToNumber(v.s)
                           IN  k.t = "number" /\ id.t = "number" /\ k.n = id.n
      [] OTHER -> FALSE

\* String(k) for an integer k.
RECURSIVE NatToChars(_)
NatToChars(k) ==
    IF k < Base THEN <<Digits[k + 1]>>
    ELSE NatToChars(k \div Base) \o <<Digits[(k % Base) + 1]>>
NumToChars(k) == IF k < 0 THEN <<"-">> \o NatToChars(-k) ELSE NatToChars(k)

-----------------------------------------------------------------------------
(* Records: a JSON object is a function from its top-level keys to values *)

Fields == {"id", "name"}
IdValues == {Num(1), Num(2), Str(<<"1">>)}
NameValues == {Str(<<"x">>), Str(<<"y">>)}
FieldValues(f) == IF f = "id" THEN IdValues ELSE NameValues

\* Every JSON object over Fields: the request bodies of PUT.
PartialRecords ==
    {b \in UNION {[D -> IdValues \cup NameValues] : D \in SUBSET Fields} :
        \A f \in DOMAIN b : b[f] \in FieldValues(f)}
\* The request bodies of POST: every field present.
FullRecords == {b \in PartialRecords : DOMAIN b = Fields}
\* The request bodies of PUT: only some of the top-level fields.
PartialBodies == {b \in PartialRecords : DOMAIN b # Fields}

\* p.id: undefined when the object has no such key.
Prop(p, f) == IF f \in DOMAIN p THEN p[f] ELSE Undefined

\* The :id segment of the request path, as Express hands it over (a string).
Paths == {<<"1">>, <<"2">>, <<"a">>}

-----------------------------------------------------------------------------
(* Strings of the credential store (src/unnamed/part_000) *)

LowerCase == <<"a", "b", "c", "d", "e", "f", "g", "h", "i", "j", "k", "l", "m",
               "n", "o", "p", "q", "r", "s", "t", "u", "v", "w", "x", "y", "z">>
UpperCase == <<"A", "B", "C", "D", "E", "F", "G", "H", "I", "J", "K", "L", "M",
               "N", "O", "P", "Q", "R", "S", "T", "U", "V", "W", "X", "Y", "Z">>

\* String.prototype.toLowerCase
LowerOf ==
    [c \in {UpperCase[i] : i \in 1..Len(UpperCase)} |->
        LowerCase[CHOOSE i \in 1..Len(UpperCase) : UpperCase[i] = c]]
ToLowerChar(c) == IF c \in DOMAIN LowerOf THEN LowerOf[c] ELSE c
ToLowerCase(cs) == [i \in 1..Len(cs) |-> ToLowerChar(cs[i])]

\* \w of a regular expression
WordChars ==
    {LowerCase[i] : i \in 1..Len(LowerCase)} \cup DOMAIN LowerOf \cup DOMAIN DigitOf
        \cup {"_"}
IsWordChar(c) == c \in WordChars

\* \w+([.-]?\w+)* matches the whole of cs
DottedWords(cs) ==
    /\ cs # <<>>
    /\ \A i \in 1..Len(cs) :
         \/ IsWordChar(cs[i])
         \/ /\ cs[i] \in {".", "-"}
            /\ 1 < i /\ i < Len(cs)
            /\ IsWordChar(cs[i - 1]) /\ IsWordChar(cs[i + 1])

\* (\.\w{2,3})+ matches the whole of cs
RECURSIVE DomainSuffix(_)
DomainSuffix(cs) ==
    \E k \in {2, 3} :
        /\ Len(cs) >= k + 1
        /\ cs[1] = "."
        /\ \A i \in 2..(k + 1) : IsWordChar(cs[i])
        /\ Len(cs) = k + 1 \/ DomainSuffix(From(cs, k + 2))

\* /^\w+([.-]?\w+)*@\w+([.-]?\w+)*(\.\w{2,3})+$/ matches cs
MatchesEmail(cs) ==
    \E at \in 1..Len(cs) :
        /\ cs[at] = "@"
        /\ DottedWords(SubSeq(cs, 1, at - 1))
        /\ \E cut \in (at + 1)..(Len(cs) - 1) :
             /\ DottedWords(SubSeq(cs, at + 1, cut))
             /\ DomainSuffix(From(cs, cut + 1))

\* The setters of the schema: username is trimmed, email is trimmed and
\* lower-cased.  Mongoose applies them to a document's fields and to the
\* values of a query filter.
SetUsername(cs) == TrimChars(cs)
SetEmail(cs) == ToLowerCase(TrimChars(cs))

\* A stored password: the characters a client sent, or the bcrypt hash of
\* them with a salt.  A bcrypt hash is a string of 60 characters.
Plain(cs) == [kind |-> "plain", salt |-> <<>>, text |-> cs]
Bcrypt(cs, salt) == [kind |-> "bcrypt", salt |-> salt, text |-> cs]
NoHash == [kind |-> "none", salt |-> <<>>, text |-> <<>>]
BcryptLength == 60
StrLen(v) == IF v.kind = "bcrypt" THEN BcryptLength ELSE Len(v.text)

\* bcrypt.hash and bcrypt.compare reject ("Illegal arguments") when the
\* password is not a string.
IllegalArguments(password) == password.t # "string"

\* bcrypt.compare(password, hash): hashes password with the salt of hash.
compare(password, hash) ==
    hash.kind = "bcrypt" /\ Bcrypt(password.s, hash.salt) = hash

UsernameMinLength == 3
PasswordMinLength == 6

\* What bcrypt.genSalt(10) may return.
Salts == {<<"s">>, <<"t">>}

Bob == <<"b", "o", "b">>
Eve == <<"e", "v", "e">>
Al == <<"a", "l">>
MailA == <<"a", "@", "b", ".", "i", "o">>
MailAShouted == <<"A", "@", "b", ".", "i", "o", " ">>
MailC == <<"c", "@", "b", ".", "i", "o">>
MailNoSuffix == <<"c", "@", "b">>
Secret == Str(<<"s", "e", "c", "r", "e", "t">>)
Short == Str(<<"1", "2", "3", "4", "5">>)
Pin == Num(123456)
NoPassword == Str(<<>>)

\* req.body: username and email are strings, password is any JSON scalar.
Body(username, email, password) ==
    [username |-> username, email |-> email, password |-> password]

\* The register requests clients send.  Two of them can collide on the email
\* (once the setters have run), on the username, on both (the same request
\* sent twice) or on neither; one has a password shorter than the minimum,
\* one a password that is a number, one fails two validators, and three miss
\* a field.
RegisterBodies ==
    {Body(Bob, MailA, Secret), Body(Eve, MailAShouted, Short),
     Body(Bob, MailC, Secret), Body(Al, MailNoSuffix, Secret),
     Body(Eve, MailC, Pin),
     Body(<<>>, MailA, Secret), Body(Bob, <<>>, Secret), Body(Bob, MailA, NoPassword)}

\* The login requests clients send.
LoginBodies ==
    {Body(<<>>, email, password) :
        email \in {MailAShouted, MailC}, password \in {Secret, Pin}}
    \cup {Body(<<>>, <<>>, Secret), Body(<<>>, MailC, NoPassword)}

-----------------------------------------------------------------------------
(* Responses of the /auth handlers *)

AuthResponse(status, message, user) ==
    [status |-> status, message |-> message, user |-> user]

NoAuthResponse == AuthResponse(0, "", <<>>)
MissingFields == AuthResponse(400, "Tous les champs sont obligatoires", <<>>)
EmailUsed == AuthResponse(400, "Cette adresse email est deja utilisee", <<>>)
UsernameTaken == AuthResponse(400, "Ce nom d'utilisateur est deja pris", <<>>)
DuplicateKey(field) == AuthResponse(400, "Ce " \o field \o " est deja utilise", <<>>)
ValidationFailed(message) == AuthResponse(400, message, <<>>)
RegisterFailed == AuthResponse(500, "Erreur lors de la creation du compte", <<>>)

\* The login answer for an email that has no account.
UnknownEmail == AuthResponse(401, "Email ou mot de passe incorrect", <<>>)

\* The login answer for a password that does not match the stored hash.
WrongPassword == AuthResponse(401, "Email ou mot de passe incorrect", <<>>)

LoginFailed == AuthResponse(500, "Erreur lors de la connexion", <<>>)

\* userResponse: the account without its password.
userResponse(user) ==
    [id |-> user._id, username |-> user.username, email |-> user.email,
     createdAt |-> user.createdAt]

AccountCreated(user) ==
    AuthResponse(201, "Compte cree avec succes", <<userResponse(user)>>)
LoggedIn(user) ==
    AuthResponse(200, "Connexion reussie", <<userResponse(user)>>)

-----------------------------------------------------------------------------
(* The credential store and the /auth handlers *)

\* !value of a string, and of a JSON scalar
Missing(cs) == cs = <<>>
MissingValue(v) ==
    \/ v.t = "string" /\ v.s = <<>>
    \/ v.t = "number" /\ v.n = 0
    \/ v.t \in {"NaN", "undefined"}

\* User.findOne({ email }) and User.findOne({ username }): the matching
\* accounts (at most one while the unique indexes hold).
findByEmail(store, email) ==
    LET filter == SetEmail(email) IN {u \in store : u.email = filter}
findByUsername(store, username) ==
    LET filter == SetUsername(username) IN {u \in store : u.username = filter}

\* new User({ username, email, password }): the setters run, _id and
\* createdAt are given.  Both are modelled by the rank of the insertion.
NewUser(store, username, email, password) ==
    [_id |-> Cardinality(store) + 1,
     username |-> SetUsername(username),
     email |-> SetEmail(email),
     password |-> password,
     createdAt |-> Cardinality(store) + 1]

\* The messages of the validators of userSchema that fail on a document, in
\* the order of the schema's paths.
ValidationErrors(user) ==
    (IF user.username = <<>>
     THEN <<"Le nom d'utilisateur est obligatoire">>
     ELSE IF Len(user.username) < UsernameMinLength
          THEN <<"Le nom d'utilisateur doit contenir au moins 3 caracteres">>
          ELSE <<>>)
    \o (IF user.email = <<>>
        THEN <<"L'adresse email est obligatoire">>
        ELSE IF ~MatchesEmail(user.email)
             THEN <<"Veuillez fournir une adresse email valide">>
             ELSE <<>>)
    \o (IF StrLen(user.password) = 0
        THEN <<"Le mot de passe est obligatoire">>
        ELSE IF StrLen(user.password) < PasswordMinLength
             THEN <<"Le mot de passe doit contenir au moins 6 caracteres">>
             ELSE <<>>)

\* messages.join(', ')
RECURSIVE Join(_)
Join(messages) ==
    IF Len(messages) = 1 THEN messages[1]
    ELSE messages[1] \o ", " \o Join(Tail(messages))

\* The unique indexes of userSchema a document would violate.
DuplicateFields(store, user) ==
    {f \in {"username", "email"} : \E u \in store : u[f] = user[f]}

\* The unique indexes a save checks before the insert.
UniqueIndexes(store, user) == DuplicateFields(store, user)

\* The password a register request stores, left as the client sent it.
PlainPassword(password, salt) == Plain(password.s)

\* await bcrypt.hash(password, salt)
hashedPassword(password, salt) == Bcrypt(password.s, salt)

\* The awaited calls of the two handlers.  User.findOne and user.save are
\* performed by the store some time after the handler has sent them, and
\* their reply reaches the handler some time after that; the bcrypt calls
\* touch no shared state.
StoreCalls == {"findEmail", "findUsername", "save", "findOne"}
BcryptCalls == {"genSalt", "hash", "compare"}

\* A request suspended at an await: the handler it runs, the call it awaits
\* (pc), whether the store has performed that call (phase), the fields of
\* req.body, the handler's locals (found: emailExists, usernameExists, user;
\* salt; hashed: hashedPassword) and how the awaited call ended (outcome,
\* with the field of a duplicate key error or the message of a validation
\* error as detail).
Request(handler, pc, body) ==
    [handler |-> handler, pc |-> pc, phase |-> "sent",
     username |-> body.username, email |-> body.email, password |-> body.password,
     found |-> {}, salt |-> <<>>, hashed |-> NoHash, outcome |-> "", detail |-> ""]

\* The request awaits its next call.
Awaits(r, pc) == [r EXCEPT !.pc = pc, !.phase = "sent", !.outcome = "", !.detail = ""]

\* The awaited call has ended.
Ended(r, outcome, detail, found) ==
    [r EXCEPT !.phase = "performed", !.outcome = outcome, !.detail = detail,
              !.found = found]

\* What the store leaves behind when it performs a call: the collection and
\* the request with the call's outcome.
Performance(store, r) == [users |-> store, request |-> r]

\* Object.keys(error.keyPattern)[0] of a duplicate key error: the field of a
\* violated index; which one, when both are violated, is the store's choice.
KeyPatterns(store, r) ==
    LET fields == UniqueIndexes(store, NewUser(store, r.username, r.email, r.hashed))
    IN  IF r.pc # "save" \/ fields = {} THEN {"none"} ELSE fields

\* user.save(): the document is validated, then inserted unless a unique
\* index refuses it.
Saved(store, r, field) ==
    LET user == NewUser(store, r.username, r.email, r.hashed)
        errors == ValidationErrors(user)
    IN  IF errors # <<>>
        THEN Performance(store, Ended(r, "ValidationError", Join(errors), {}))
        ELSE IF field # "none"
             THEN Performance(store, Ended(r, "E11000", field, {}))
             ELSE Performance(store \cup {user}, Ended(r, "ok", "", {user}))

\* The store performs the call a request awaits, or the call fails (the
\* connection is lost) and nothing is done.
Performed(store, r, rejects, field) ==
    IF rejects THEN Performance(store, Ended(r, "rejected", "", {}))
    ELSE CASE r.pc \in {"findEmail", "findOne"} ->
                Performance(store, Ended(r, "ok", "", findByEmail(store, r.email)))
           [] r.pc = "findUsername" ->
                Performance(store, Ended(r, "ok", "", findByUsername(store, r.username)))
           [] OTHER -> Saved(store, r, field)

\* What a handler does when the reply of its awaited call arrives: it goes
\* on to its next await (pc), or it sends a response and is "done".
StepResult(pc, r, response) == [pc |-> pc, request |-> r, resp |-> response]
Goes(r, pc) == StepResult(pc, Awaits(r, pc), NoAuthResponse)
Sends(r, response) == StepResult("done", r, response)

\* const emailExists = await User.findOne({ email }); ...
EmailChecked(r) ==
    IF r.outcome = "rejected" THEN Sends(r, RegisterFailed)
    ELSE IF r.found # {} THEN Sends(r, EmailUsed)
    ELSE Goes(r, "findUsername")

\* const usernameExists = await User.findOne({ username }); ...
UsernameChecked(r) ==
    IF r.outcome = "rejected" THEN Sends(r, RegisterFailed)
    ELSE IF r.found # {} THEN Sends(r, UsernameTaken)
    ELSE Goes(r, "genSalt")

\* const salt = await bcrypt.genSalt(10);
SaltGenerated(r, salt) == Goes([r EXCEPT !.salt = salt], "hash")

\* const hashedPassword = await bcrypt.hash(password, salt); new User(..);
\* user.save() is sent.
Hashed(r) ==
    IF IllegalArguments(r.password) THEN Sends(r, RegisterFailed)
    ELSE Goes([r EXCEPT !.hashed = hashedPassword(r.password, r.salt)], "save")

\* await user.save(); ... and the catch block.
SaveAnswered(r) ==
    CASE r.outcome = "ok" ->
            Sends(r, AccountCreated(CHOOSE user \in r.found : TRUE))
      [] r.outcome = "ValidationError" -> Sends(r, ValidationFailed(r.detail))
      [] r.outcome = "E11000" -> Sends(r, DuplicateKey(r.detail))
      [] OTHER -> Sends(r, RegisterFailed)

\* const user = await User.findOne({ email }); ...
UserFound(r) ==
    IF r.outcome = "rejected" THEN Sends(r, LoginFailed)
    ELSE IF r.found = {} THEN Sends(r, UnknownEmail)
    ELSE Goes(r, "compare")

\* const isMatch = await bcrypt.compare(password, user.password); ...
Compared(r) ==
    LET user == CHOOSE u \in r.found : TRUE
    IN  IF IllegalArguments(r.password) THEN Sends(r, LoginFailed)
        ELSE IF ~compare(r.password, user.password) THEN Sends(r, WrongPassword)
        ELSE Sends(r, LoggedIn(user))

\* The step a request takes when the reply of the call it awaits arrives.
Delivered(r, salt) ==
    CASE r.pc = "findEmail" -> EmailChecked(r)
      [] r.pc = "findUsername" -> UsernameChecked(r)
      [] r.pc = "genSalt" -> SaltGenerated(r, salt)
      [] r.pc = "hash" -> Hashed(r)
      [] r.pc = "save" -> SaveAnswered(r)
      [] r.pc = "findOne" -> UserFound(r)
      [] OTHER -> Compared(r)

\* The reply of a store call can arrive once the store has performed the
\* call; the reply of a bcrypt call can arrive at any time.
Deliverable(r) == r.phase = "performed" \/ r.pc \in BcryptCalls

Replaced(r, request) == (inflight (-) SetToBag({r})) (+) SetToBag({request})

\* The handler accepts a request and sends its first call.
Accepted(r) ==
    /\ BagCardinality(inflight) < MaxInflight
    /\ inflight' = inflight (+) SetToBag({r})
    /\ UNCHANGED <<users, authResp, fileVars>>

\* The server takes a step's result: the request moves on to its next await,
\* or its response is sent and it leaves the suspended requests.
Resumed(r, result) ==
    /\ authResp' = IF result.pc = "done" THEN result.resp ELSE authResp
    /\ inflight' =
          IF result.pc = "done" THEN inflight (-) SetToBag({r})
          ELSE Replaced(r, result.request)
    /\ UNCHANGED <<users, fileVars>>

\* POST /auth/register, up to the first await: the presence check, then
\* User.findOne({ email }) is sent.
Register(body) ==
    IF Missing(body.username) \/ Missing(body.email) \/ MissingValue(body.password)
    THEN /\ authResp' = MissingFields
         /\ UNCHANGED <<users, inflight, fileVars>>
    ELSE Accepted(Request("register", "findEmail", body))

\* POST /auth/login, up to the first await.
Login(body) ==
    IF Missing(body.email) \/ MissingValue(body.password)
    THEN /\ authResp' = MissingFields
         /\ UNCHANGED <<users, inflight, fileVars>>
    ELSE Accepted(Request("login", "findOne", body))

\* The store performs a call it was sent.
StorePerforms(r) ==
    /\ r.phase = "sent"
    /\ r.pc \in StoreCalls
    /\ \E rejects \in BOOLEAN, field \in KeyPatterns(users, r) :
         LET done == Performed(users, r, rejects, field)
         IN  /\ users' = done.users
             /\ inflight' = Replaced(r, done.request)
             /\ UNCHANGED <<authResp, fileVars>>

RegisterEmailChecked(r) ==
    /\ r.pc = "findEmail" /\ Deliverable(r)
    /\ Resumed(r, EmailChecked(r))

RegisterUsernameChecked(r) ==
    /\ r.pc = "findUsername" /\ Deliverable(r)
    /\ Resumed(r, UsernameChecked(r))

RegisterSaltGenerated(r) ==
    /\ r.pc = "genSalt"
    /\ \E salt \in Salts : Resumed(r, SaltGenerated(r, salt))

RegisterHashed(r) ==
    /\ r.pc = "hash"
    /\ Resumed(r, Hashed(r))

RegisterSaved(r) ==
    /\ r.pc = "save" /\ Deliverable(r)
    /\ Resumed(r, SaveAnswered(r))

LoginUserFound(r) ==
    /\ r.pc = "findOne" /\ Deliverable(r)
    /\ Resumed(r, UserFound(r))

LoginCompared(r) ==
    /\ r.pc = "compare"
    /\ Resumed(r, Compared(r))

-----------------------------------------------------------------------------
(* data/pokemons.json *)

\* JSON.stringify of a value: a number is its digits, a string is quoted.
StringifyValue(v) ==
    IF v.t = "number" THEN NumToChars(v.n) ELSE <<Quote>> \o v.s \o <<Quote>>

\* JSON.parse of a value's text.
ParseValue(cs) ==
    IF Head(cs) = Quote THEN Str(SubSeq(cs, 2, Len(cs) - 1)) ELSE parseInt(cs)

\* JSON.stringify(pokemonsList, null, 2): the text of every value of every
\* object of the array, in order.
JSONstringify(list) ==
    [i \in 1..Len(list) |-> [f \in DOMAIN list[i] |-> StringifyValue(list[i][f])]]

\* JSON.parse of the file's text.
JSONparse(docs) ==
    [i \in 1..Len(docs) |-> [f \in DOMAIN docs[i] |-> ParseValue(docs[i][f])]]

\* What fs.writeFileSync can do: write the text, fail before the file is
\* opened (the file keeps its content) or fail after the file was truncated
\* (the file no longer holds a JSON document).
WriteOutcomes == {"ok", "EACCES", "ENOSPC"}

\* A handler that does not save the list.
writeFileSyncSkipped(file, text, outcome) == file

writeFileSync(file, text, outcome) ==
    CASE outcome = "ok" -> [valid |-> TRUE, docs |-> text]
      [] outcome = "EACCES" -> file
      [] OTHER -> [valid |-> FALSE, docs |-> <<>>]

-----------------------------------------------------------------------------
(* Responses of the file-backed server *)

NotFound ==
    [status |-> 404, message |-> "Pokemon non trouve.", pokemon |-> <<>>,
     pokemons |-> <<>>]

\* A handler that throws (writeFileSync failed) ends in Express' default
\* error handler.
InternalServerError ==
    [status |-> 500, message |-> "Internal Server Error", pokemon |-> <<>>,
     pokemons |-> <<>>]

Created(p) ==
    [status |-> 201, message |-> "Pokemon ajoute avec succes.", pokemon |-> <<p>>,
     pokemons |-> <<>>]

Updated(p) ==
    [status |-> 200, message |-> "Pokemon mis a jour avec succes.",
     pokemon |-> <<p>>, pokemons |-> <<>>]

Deleted(p) ==
    [status |-> 200, message |-> "Pokemon supprime avec succes.",
     pokemon |-> <<p>>, pokemons |-> <<>>]

Found(p) == [status |-> 200, message |-> "", pokemon |-> <<p>>, pokemons |-> <<>>]

Listing(list) ==
    [status |-> 200, message |-> "pokemons", pokemon |-> <<>>, pokemons |-> list]

NoResponse == [status |-> 0, message |-> "", pokemon |-> <<>>, pokemons |-> <<>>]

-----------------------------------------------------------------------------
(* Handlers of the file-backed server (src/src/index.js) *)

\* pokemonsList.findIndex(p => p.id === id): the 0-based index of the first
\* match, -1 when there is none.
findIndexStrict(list, id) ==
    IF \E i \in 1..Len(list) : StrictEq(Prop(list[i], "id"), id)
    THEN (CHOOSE i \in 1..Len(list) :
            /\ StrictEq(Prop(list[i], "id"), id)
            /\ \A j \in 1..(i - 1) : ~StrictEq(Prop(list[j], "id"), id)) - 1
    ELSE -1

\* pokemonsList.findIndex(p => p.id == id)
findIndexLoose(list, id) ==
    IF \E i \in 1..Len(list) : LooseEq(Prop(list[i], "id"), id)
    THEN (CHOOSE i \in 1..Len(list) :
            /\ LooseEq(Prop(list[i], "id"), id)
            /\ \A j \in 1..(i - 1) : ~LooseEq(Prop(list[j], "id"), id)) - 1
    ELSE -1

\* { ...a, ...b }
Spread(a, b) ==
    [f \in DOMAIN a \cup DOMAIN b |-> IF f \in DOMAIN b THEN b[f] ELSE a[f]]

\* list.splice(index, 1): the list without its element at the 0-based index.
Splice(list, index) ==
    SubSeq(list, 1, index) \o SubSeq(list, index + 2, Len(list))

\* GET /api/pokemons/:id
GetResponse(list, path) ==
    LET id == parseInt(path)
        index == findIndexStrict(list, id)
    IN  IF index = -1 THEN NotFound ELSE Found(list[index + 1])

\* What a handler leaves behind: the in-memory list, the file and the response.
Outcome(list, file, response) ==
    [pokemonsList |-> list, disk |-> file, resp |-> response]

\* fs.writeFileSync(filePath, JSON.stringify(pokemonsList, null, 2), 'utf-8')
\* followed by the handler's res.status(..).send(..): a write that throws
\* skips the send, and Express answers 500.
WriteThenSend(list, file, success, outcome) ==
    Outcome(list, writeFileSync(file, JSONstringify(list), outcome),
            IF outcome = "ok" THEN success ELSE InternalServerError)

\* POST /api/pokemons
PostHandler(list, file, newPokemon, outcome) ==
    WriteThenSend(Append(list, newPokemon), file, Created(newPokemon), outcome)

\* PUT /api/pokemons/:id
PutHandler(list, file, path, updatedPokemon, outcome) ==
    LET id == parseInt(path)
        index == findIndexLoose(list, id)
        updated == [list EXCEPT ![index + 1] = Spread(list[index + 1], updatedPokemon)]
    IN  IF index = -1 THEN Outcome(list, file, NotFound)
        ELSE WriteThenSend(updated, file, Updated(updated[index + 1]), outcome)

\* DELETE /api/pokemons/:id
DeleteHandler(list, file, path, outcome) ==
    LET id == parseInt(path)
        index == findIndexStrict(list, id)
    IN  IF index = -1 THEN Outcome(list, file, NotFound)
        ELSE WriteThenSend(Splice(list, index), file, Deleted(list[index + 1]), outcome)

\* A run has at most MaxWriteFailures writes that fail.
CanFail(outcome) == outcome # "ok" => writeFailures < MaxWriteFailures

\* The server takes the handler's outcome; a write that fails uses up one of
\* the run's write failures.
Handled(result, outcome) ==
    /\ pokemonsList' = result.pokemonsList
    /\ disk' = result.disk
    /\ resp' = result.resp
    /\ writeFailures' =
          IF outcome # "ok" /\ result.resp = InternalServerError
          THEN writeFailures + 1 ELSE writeFailures
    /\ UNCHANGED authVars

GetAll ==
    /\ resp' = Listing(pokemonsList)
    /\ UNCHANGED <<pokemonsList, disk, writeFailures, authVars>>

GetOne(path) ==
    /\ resp' = GetResponse(pokemonsList, path)
    /\ UNCHANGED <<pokemonsList, disk, writeFailures, authVars>>

Post(newPokemon) ==
    /\ Len(pokemonsList) < MaxLen
    /\ \E outcome \in WriteOutcomes :
         /\ CanFail(outcome)
         /\ Handled(PostHandler(pokemonsList, disk, newPokemon, outcome), outcome)

Put(path, updatedPokemon) ==
    \E outcome \in WriteOutcomes :
        /\ CanFail(outcome)
        /\ Handled(PutHandler(pokemonsList, disk, path, updatedPokemon, outcome), outcome)

Delete(path) ==
    \E outcome \in WriteOutcomes :
        /\ CanFail(outcome)
        /\ Handled(DeleteHandler(pokemonsList, disk, path, outcome), outcome)

\* The lists data/pokemons.json may hold when the server starts.
InitialLists == {<<>>} \cup {<<r>> : r \in {p \in FullRecords : p.id.t = "number"}}

\* The credential store of a new deployment, and no request handled yet.
InitUsers ==
    /\ users = {}
    /\ inflight = EmptyBag
    /\ authResp = NoAuthResponse

\* index.js:13 reads the file into pokemonsList when the server starts.
InitFile ==
    /\ pokemonsList \in InitialLists
    /\ disk = [valid |-> TRUE, docs |-> JSONstringify(pokemonsList)]
    /\ resp = NoResponse
    /\ writeFailures = 0
    /\ InitUsers

NextFile ==
    \/ GetAll
    \/ \E path \in Paths : GetOne(path)
    \/ \E newPokemon \in FullRecords : Post(newPokemon)
    \/ \E path \in Paths, updatedPokemon \in PartialBodies : Put(path, updatedPokemon)
    \/ \E path \in Paths : Delete(path)

SpecFile == InitFile /\ [][NextFile]_vars

\* Each handler is a synchronous callback, so the event loop runs it to
\* completion, and it handles every request it has accepted.
SpecFileFair == SpecFile /\ WF_vars(NextFile)

-----------------------------------------------------------------------------
(* Properties of the file-backed server *)

IsCreated(r) == r.status = 201
IsUpdated(r) == r.status = 200 /\ r.message = Updated(<<>>).message
IsDeleted(r) == r.status = 200 /\ r.message = Deleted(<<>>).message

DiskMirrorsList == disk.valid /\ JSONparse(disk.docs) = pokemonsList

\* C1: after POST of a record r whose id is the number n, GET /api/pokemons/n
\* answers 200 with exactly r; after a DELETE /api/pokemons/n that answered
\* 200, GET /api/pokemons/n answers 404.
C1_PostThenGetThenDelete ==
    /\ IsCreated(resp) =>
          LET r == resp.pokemon[1]
          IN  r.id.t = "number" =>
                GetResponse(pokemonsList, NumToChars(r.id.n)) = Found(r)
    /\ IsDeleted(resp) =>
          GetResponse(pokemonsList, NumToChars(resp.pokemon[1].id.n)) = NotFound

\* C2: no two stored records have the same id.
C2_UniqueIds ==
    \A i, j \in 1..Len(pokemonsList) :
        i # j => Prop(pokemonsList[i], "id") # Prop(pokemonsList[j], "id")

\* C4: for every record the store holds under a path id (the record GET
\* returns for it) and every body with only some of the top-level fields, a
\* PUT whose file write succeeds overwrites exactly the body's fields on that
\* record, leaves the record's other fields and every other record
\* unchanged, and answers with the record as updated.
C4_PutShallowMerge ==
    \A path \in Paths :
        LET index == findIndexStrict(pokemonsList, parseInt(path))
        IN  index # -1 =>
              \A body \in PartialBodies :
                  LET after == PutHandler(pokemonsList, disk, path, body, "ok")
                      old == pokemonsList[index + 1]
                      new == after.pokemonsList[index + 1]
                  IN  /\ Len(after.pokemonsList) = Len(pokemonsList)
                      /\ DOMAIN new = DOMAIN old \cup DOMAIN body
                      /\ \A f \in DOMAIN body : new[f] = body[f]
                      /\ \A f \in DOMAIN old \ DOMAIN body : new[f] = old[f]
                      /\ \A j \in 1..Len(pokemonsList) :
                           j # index + 1 => after.pokemonsList[j] = pokemonsList[j]
                      /\ after.resp = Updated(new)

\* C5: after every mutating call, also one whose file write failed, the file
\* holds the in-memory list.
C5_DiskEqualsListAfterMutation ==
    (IsCreated(resp) \/ IsUpdated(resp) \/ IsDeleted(resp) \/ resp.status = 500)
        => DiskMirrorsList

\* A mutation acknowledged with a success response that the in-memory list or
\* the file does not hold.
LostUpdate ==
    \/ IsCreated(resp) /\ ~(/\ pokemonsList # <<>>
                             /\ pokemonsList[Len(pokemonsList)] = resp.pokemon[1]
                             /\ DiskMirrorsList)
    \/ IsUpdated(resp) /\ ~(/\ \E i \in 1..Len(pokemonsList) :
                                  pokemonsList[i] = resp.pokemon[1]
                             /\ DiskMirrorsList)
    \/ IsDeleted(resp) /\ ~DiskMirrorsList

\* C9 (as claimed): a state is reached in which an acknowledged mutation is
\* missing from the in-memory list or from the file.
C9_LostUpdateReached == <>LostUpdate

\* C9 (amended): when a mutating request is acknowledged with a success
\* response, the in-memory list holds the mutation and the file holds the
\* in-memory list: no update is lost.
C9_NoLostUpdate == ~LostUpdate

\* C9 witness: a second mutation is acknowledged after a write of an earlier
\* request has failed.
C9_Witness ==
    /\ IsCreated(resp)
    /\ Len(pokemonsList) = 2
    /\ writeFailures = 1

\* C10: for every path id, PUT finds a record exactly when GET and DELETE
\* find one, and it is the same record.
C10_SameLookup ==
    \A path \in Paths :
        findIndexLoose(pokemonsList, parseInt(path))
            = findIndexStrict(pokemonsList, parseInt(path))

-----------------------------------------------------------------------------
(* The server of src/unnamed/part_000: the /auth routes *)

NextAuth ==
    \/ \E body \in RegisterBodies : Register(body)
    \/ \E body \in LoginBodies : Login(body)
    \/ \E r \in BagToSet(inflight) : StorePerforms(r)
    \/ \E r \in BagToSet(inflight) : RegisterEmailChecked(r)
    \/ \E r \in BagToSet(inflight) : RegisterUsernameChecked(r)
    \/ \E r \in BagToSet(inflight) : RegisterSaltGenerated(r)
    \/ \E r \in BagToSet(inflight) : RegisterHashed(r)
    \/ \E r \in BagToSet(inflight) : RegisterSaved(r)
    \/ \E r \in BagToSet(inflight) : LoginUserFound(r)
    \/ \E r \in BagToSet(inflight) : LoginCompared(r)

InitAuth ==
    /\ pokemonsList = <<>>
    /\ disk = [valid |-> TRUE, docs |-> JSONstringify(pokemonsList)]
    /\ resp = NoResponse
    /\ writeFailures = 0
    /\ InitUsers

SpecAuth == InitAuth /\ [][NextAuth]_vars

-----------------------------------------------------------------------------
(* Properties of the credential store *)

\* C3: a register request with a non-empty password of fewer than 6
\* characters creates no account: every account was created from a password
\* of at least 6 characters.
C3_ShortPasswordCreatesNoAccount ==
    \A u \in users : Len(u.password.text) >= PasswordMinLength

Registers == {r \in BagToSet(inflight) : r.handler = "register"}
EmailStored(r) == LET email == SetEmail(r.email) IN \E u \in users : u.email = email
OwnAccountStored(r) == r.pc = "save" /\ r.phase = "performed" /\ r.outcome = "ok"

\* C6: under any interleaving of the steps of register requests no two
\* accounts have the same email or the same username, and a request whose
\* email is stored (by another request) adds no account and is answered 400,
\* also when no call to the store fails: its save, performed now, adds
\* nothing, and the response it sends next has status 400.
C6_UniqueAccounts ==
    /\ \A u, v \in users :
         u # v => u.email # v.email /\ u.username # v.username
    /\ \A r \in Registers :
         EmailStored(r) /\ ~OwnAccountStored(r) /\ r.outcome # "rejected" =>
            /\ r.phase = "sent" /\ r.pc \in StoreCalls =>
                 \A field \in KeyPatterns(users, r) :
                     Performed(users, r, FALSE, field).users = users
            /\ Deliverable(r) =>
                 \A salt \in Salts :
                     LET result == Delivered(r, salt)
                     IN  result.pc = "done" => result.resp.status = 400

\* The response of a login handled alone: its calls are performed in the
\* store as it is and none fails.
LoginAnswer(store, body) ==
    LET sent == Request("login", "findOne", body)
        found == UserFound(Performed(store, sent, FALSE, "none").request)
    IN  IF found.pc = "done" THEN found.resp ELSE Compared(found.request).resp

Account(body) == LET email == SetEmail(body.email) IN {u \in users : u.email = email}
Filled(body) == ~Missing(body.email) /\ ~MissingValue(body.password)
Matches(body, u) == body.password.t = "string" /\ body.password.s = u.password.text

\* C7: a login with an email that has no account and a login with the email
\* of an account and another password than the account's get the same
\* response, a 401; a login with the email of an account and its password
\* gets a 200 whose user.email is the account's.
C7_LoginAnswers ==
    LET filled == {b \in LoginBodies : Filled(b)}
        account == [b \in filled |-> Account(b)]
        answer == [b \in filled |-> LoginAnswer(users, b)]
        unknown == {b \in filled : account[b] = {}}
        wrong == {b \in filled : \E u \in account[b] : ~Matches(b, u)}
        right == {b \in filled : \E u \in account[b] : Matches(b, u)}
        refusals == {answer[b] : b \in unknown \cup wrong}
    IN  /\ Cardinality(refusals) <= 1
        /\ \A response \in refusals : response.status = 401
        /\ \A b \in right :
              /\ answer[b].status = 200
              /\ \A u \in account[b] : answer[b].user[1].email = u.email

\* C8: no account stores a password as a client sent it, and the user of a
\* 201 or 200 response is an account's id, username, email and createdAt,
\* without a password field.
C8_NoPlainPassword ==
    /\ \A u \in users :
         \A b \in RegisterBodies \cup LoginBodies : u.password # Plain(b.password.s)
    /\ authResp.status \in {200, 201} =>
         /\ Len(authResp.user) = 1
         /\ "password" \notin DOMAIN authResp.user[1]
         /\ \E u \in users :
              authResp.user[1] =
                  [id |-> u._id, username |-> u.username, email |-> u.email,
                   createdAt |-> u.createdAt]

\* C8 witness: a client has registered and then logged in.
C8_Witness ==
    /\ authResp.status = 200
    /\ users # {}

=============================================================================
